---- MODULE Spec2Model ----
(***************************************************************************)
(* A model of extensions/terminal-suggest/src/env/pathExecutableCache.ts:  *)
(* the PathExecutableCache class (the cache manager and the per-directory  *)
(* scanner) and watchPathDirectories (the directory-watch subsystem).      *)
(*                                                                         *)
(* Every async function is cut at its await points: one action is the      *)
(* synchronous run of the code between two awaits.  Strings are sequences  *)
(* of one-character strings so that splitting a PATH value is computed.    *)
(***************************************************************************)
EXTENDS Naturals, Sequences, FiniteSets, TLC

\* `undefined` of the source: as a shell hint, as a string (no string of the
\* model holds this token), as a cache entry (entries are numbered from 1) and
\* as a suffix configuration.
Undef == "undefined"
UndefStr == <<Undef>>
NoEntry == 0
UndefCfg == {Undef}

(***************************************************************************)
(* Bounds of the model.                                                    *)
(***************************************************************************)
\* Calls of getExecutablesInPath in one behaviour (each may run concurrently).
MaxLookups == 3
\* Calls of watchPathDirectories in one behaviour.
MaxWatchCalls == 2
\* Changes of the host's configuration store in one behaviour.
MaxConfigChanges == 1
\* Files created in a PATH directory by the environment in one behaviour.
MaxFsChanges == 1
\* Calls of getExecutablesInPath in flight together under SpecWatch.
MaxInFlight == 2

(***************************************************************************)
(* Strings.                                                                *)
(***************************************************************************)
\* pathValue.split(sep): the segments between the separators, in order; a
\* string without separator (the empty string too) is one segment.
RECURSIVE SplitFrom(_, _, _, _)
SplitFrom(s, sep, i, cur) ==
  IF i > Len(s) THEN <<cur>>
  ELSE IF s[i] = sep THEN <<cur>> \o SplitFrom(s, sep, i + 1, <<>>)
  ELSE SplitFrom(s, sep, i + 1, Append(cur, s[i]))

Split(s, sep) == SplitFrom(s, sep, 1, <<>>)

\* key.toLowerCase() on the environment keys of the model.
ToLowerCase(k) ==
  CASE k = "PATH" -> "path"
    [] k = "Path" -> "path"
    [] OTHER -> k

Range(f) == {f[i] : i \in DOMAIN f}

\* A Set built by adding the elements of a list in order, as a list in
\* insertion order: a later duplicate is dropped.
RECURSIVE Dedupe(_)
Dedupe(s) ==
  IF s = <<>> THEN <<>>
  ELSE LET front == Dedupe(SubSeq(s, 1, Len(s) - 1))
           last  == s[Len(s)]
       IN  IF last \in Range(front) THEN front ELSE Append(front, last)

(***************************************************************************)
(* The platform and the environment mappings.                              *)
(***************************************************************************)
\* The separator of a PATH list: isWindows ? ';' : ':' (also path.delimiter).
Delimiter(win) == IF win THEN ";" ELSE ":"

\* The directories of the model's filesystem, as path strings.
DirA == <<"a">>
DirB == <<"b">>
Dirs == {DirA, DirB}

\* PATH strings: the empty string, one directory, two directories, the same
\* directory twice, and a directory that does not exist.
PathValues(win) ==
  { <<>>, DirA, DirA \o <<Delimiter(win)>> \o DirB,
    DirA \o <<Delimiter(win)>> \o DirA, <<"c">> }

\* An environment mapping: its keys in insertion order with their values.
EnvKeys == {"PATH", "Path"}
Envs(win) ==
  {<<>>} \cup
  { <<[key |-> k, value |-> v]>> : k \in EnvKeys, v \in PathValues(win) \cup {UndefStr} }

\* TerminalShellType values a caller passes (undefined: no hint).
ShellTypes == {"GitBash", "Bash", Undef}

\* env[key]
EnvGet(env, key) ==
  IF \E i \in DOMAIN env : env[i].key = key
  THEN env[CHOOSE i \in DOMAIN env : env[i].key = key].value
  ELSE UndefStr

\* Object.keys(env).find(key => key.toLowerCase() === 'path')
FindPathKey(env) ==
  IF \E i \in DOMAIN env : ToLowerCase(env[i].key) = "path"
  THEN env[CHOOSE i \in DOMAIN env :
             /\ ToLowerCase(env[i].key) = "path"
             /\ \A j \in DOMAIN env : ToLowerCase(env[j].key) = "path" => i <= j].key
  ELSE Undef

\* A cache key that falls back to the process PATH when the environment has
\* no PATH.
ResolvePathValueFallback(env, shellType, win, procPath) ==
  LET fromEnv == IF win /\ FindPathKey(env) # Undef
                 THEN EnvGet(env, FindPathKey(env))
                 ELSE EnvGet(env, "PATH")
  IN  IF shellType = "GitBash" \/ fromEnv = UndefStr THEN procPath ELSE fromEnv

\* The cache key of getExecutablesInPath (lines 51-63).
ResolvePathValue(env, shellType, win, procPath) ==
  IF shellType = "GitBash" THEN procPath
  ELSE IF win
       THEN LET caseSensitivePathKey == FindPathKey(env)
            IN  IF caseSensitivePathKey # Undef
                THEN EnvGet(env, caseSensitivePathKey)
                ELSE UndefStr
       ELSE EnvGet(env, "PATH")

(***************************************************************************)
(* The filesystem.                                                         *)
(***************************************************************************)
\* A directory entry: the name, the type readDirectory reports, what lstat
\* answers ("file", "link", or "fail" when the entry vanished or cannot be
\* read), the execute permission and the suffix of the file itself, and for a
\* link its target (resolves: whether realpath succeeds).  throws: a call of
\* lines 138-155, outside the try of lines 118-136, throws for the entry.
Target(name, suffix, x, resolves) ==
  [name |-> name, suffix |-> suffix, x |-> x, resolves |-> resolves]
File(name, suffix, x) ==
  [name |-> name, suffix |-> suffix, type |-> "File", lstat |-> "file",
   x |-> x, target |-> Target("", "", FALSE, FALSE), throws |-> FALSE]
Link(name, target) ==
  [name |-> name, suffix |-> "", type |-> "SymbolicLink", lstat |-> "link",
   x |-> FALSE, target |-> target, throws |-> FALSE]

FooExe    == File("foo.exe", ".exe", TRUE)
Readme    == File("readme", "", FALSE)
Script    == File("s.ps1", ".ps1", FALSE)
Vanished  == [File("gone.exe", ".exe", TRUE) EXCEPT !.lstat = "fail"]
SubDir    == [File("sub", "", TRUE) EXCEPT !.type = "Directory"]
Unknown   == [File("dev", "", TRUE) EXCEPT !.type = "Unknown"]
LinkExe   == Link("ln.exe", Target("real.exe", ".exe", TRUE, TRUE))
FooLink   == Link("foo.exe", Target("real.exe", ".exe", TRUE, TRUE))
LinkPlain == Link("ln", Target("readme", "", FALSE, TRUE))
LinkDead  == Link("dead.exe", Target("", "", FALSE, FALSE))
Throwing  == [File("bad", "", TRUE) EXCEPT !.throws = TRUE]
\* The k-th file the environment creates in a directory.
NewFile(k) == File(IF k = 1 THEN "new1.exe" ELSE IF k = 2 THEN "new2.exe" ELSE "new3.exe",
                   ".exe", TRUE)

\* A directory of the filesystem: "dir" (readable), "unreadable" (stat
\* succeeds; listing and watching fail), "notdir" (a file), "missing", and
\* "hangs" (a filesystem call on it never returns).
Directory(kind, files) == [kind |-> kind, files |-> files]

\* Whether a filesystem call on the path returns at all.
Settles(filesystem, path) ==
  ~(path \in DOMAIN filesystem /\ filesystem[path].kind = "hangs")

\* fs.stat(path).then(stat => stat.isDirectory()).catch(() => false)
StatIsDirectory(filesystem, path) ==
  /\ path \in DOMAIN filesystem
  /\ filesystem[path].kind \in {"dir", "unreadable"}

\* The suffixes the Windows-family platform always recognises.
WindowsDefaultExecutableExtensions == {".exe", ".cmd", ".bat"}

\* isExecutable(filePath, configuredWindowsExecutableExtensions) of
\* helpers/executable: by suffix on the Windows family (built-in suffixes and
\* the configured suffix-only ones), by execute permission elsewhere.  It
\* never throws.
IsExecutable(x, suffix, cfg, win) ==
  IF win THEN suffix \in WindowsDefaultExecutableExtensions \cup cfg
  ELSE x

\* pathSeparator of getExecutablesInPath.
PathSeparator(win) == IF win THEN "\\" ELSE "/"

\* getFriendlyResourcePath(Uri.joinPath(Uri.file(dir), file), pathSeparator)
GetFriendlyResourcePath(dir, name, sep) == dir \o <<sep, name>>

\* A documentation that leaves out the target of the link.
LinkDocumentationPlain(dir, name, sep, realName) == dir \o <<sep, name>>

\* `${resource.fsPath} -> ${symlinkRealPath}`
LinkDocumentation(dir, name, sep, realName) ==
  dir \o <<sep, name, " -> ", realName>>

\* The object result.add({label, documentation, kind}) creates; `by` is the
\* object's identity (the lookup and the scan that created it): a Set of
\* objects keeps two objects of equal content.
Resource(label, documentation, kind, by) ==
  [label |-> label, documentation |-> documentation, kind |-> kind, by |-> by]

(***************************************************************************)
(* The state.                                                              *)
(***************************************************************************)
VARIABLES
  isWindows,                  \* osIsWindows()
  processPath,                \* process.env.PATH
  hostConfig,                 \* the configuration store's suffix-only setting
  filesystem,                 \* directory path -> Directory
  cachedPathValue,            \* _cachedPathValue
  cachedWindowsExeExtensions, \* _cachedWindowsExeExtensions
  cachedExes,                 \* _cachedExes: the number of an entry, or NoEntry
  lookups,                    \* the calls of getExecutablesInPath, in call order
  watchCalls,                 \* the calls of watchPathDirectories, in call order
  watchers,                   \* the open fs.watch watchers
  subscriptions,              \* context.subscriptions: the teardown actions
  pendingEvents,              \* watchers with a change event not yet delivered
  history                     \* what happened so far: what the properties speak
                              \* of, and the counters of the bounded actions

vars == <<isWindows, processPath, hostConfig, filesystem, cachedPathValue,
          cachedWindowsExeExtensions, cachedExes, lookups, watchCalls, watchers,
          subscriptions, pendingEvents, history>>

platformVars == <<isWindows, processPath>>
cacheVars == <<cachedPathValue, cachedWindowsExeExtensions, cachedExes>>
watchVars == <<watchCalls, watchers, subscriptions, pendingEvents>>

(***************************************************************************)
(* getExecutablesInPath and _getExecutablesInPath.                         *)
(***************************************************************************)
\* The check of the cache without the comparison of the key.
CacheHitAnyPath(exes, cachedPath, pathValue) == exes # NoEntry

\* The check of the cache (line 69).
CacheHit(exes, cachedPath, pathValue) ==
  exes # NoEntry /\ cachedPath = pathValue

\* One call of _getExecutablesInPath (a promise of the fan-out): the
\* directory, the await it is suspended at, the listing it read, the index
\* of the entry at hand, the configuration handed to the isExecutable call
\* in flight, its result set, and how it settled.
NewScan(dir) ==
  [dir |-> dir, pc |-> "stat", files |-> <<>>, i |-> 0, cfgArg |-> UndefCfg,
   result |-> {}, ret |-> "pending"]

\* return result (line 157)
ReturnResult(sc) == [sc EXCEPT !.pc = "done", !.ret = "result"]

\* return undefined (lines 103 and 160: the catch of the whole scan)
ReturnUndefined(sc) == [sc EXCEPT !.pc = "done", !.ret = "undefined"]

\* A scan without the catch of lines 158-161: the promise is rejected.
RethrowScanError(sc) == [sc EXCEPT !.pc = "done", !.ret = "rejected"]

\* catch (e) { return undefined } around the whole scan (lines 158-161)
CatchScanError(sc) == ReturnUndefined(sc)

\* A loop that skips no entry early.
NextEntryAny(files, i) == i + 1

\* The index of the next entry after i that is not skipped early (line 114).
NextEntry(files, i) ==
  LET rest == {j \in (i + 1)..Len(files) : files[j].type \notin {"Unknown", "Directory"}}
  IN  IF rest = {} THEN Len(files) + 1
      ELSE CHOOSE j \in rest : \A m \in rest : j <= m

\* `continue`, or the end of the loop body: on to the lstat of the next
\* entry that is not skipped, or to the return after the last entry.
Continue(sc) ==
  LET j == NextEntry(sc.files, sc.i)
  IN  IF j > Len(sc.files) THEN ReturnResult([sc EXCEPT !.i = j])
      ELSE [sc EXCEPT !.pc = "lstat", !.i = j]

\* Promise.any(promises): fulfilled once a promise is fulfilled.
PromiseAny(scans) ==
  IF \E k \in DOMAIN scans : scans[k].ret \in {"result", "undefined"} THEN "fulfilled"
  ELSE IF \A k \in DOMAIN scans : scans[k].ret = "rejected" THEN "rejected"
  ELSE "pending"

\* Promise.all(promises): rejected once a promise is rejected, fulfilled
\* when all are fulfilled.
PromiseAll(scans) ==
  IF \E k \in DOMAIN scans : scans[k].ret = "rejected" THEN "rejected"
  ELSE IF \A k \in DOMAIN scans : scans[k].ret # "pending" THEN "fulfilled"
  ELSE "pending"

\* A publication that leaves _cachedPathValue as it was.
PublishedPathValueKept(old, pathValue) == old

\* this._cachedPathValue = pathValue (line 94)
PublishedPathValue(old, pathValue) == pathValue

\* A merge that keeps only the result set of the directory listed first
\* among those that returned one.
MergeResultsFirst(scans) ==
  LET ok == {m \in DOMAIN scans : scans[m].ret = "result"}
  IN  IF ok = {} THEN {}
      ELSE scans[CHOOSE m \in ok : \A n \in ok : m <= n].result

\* A merge that also takes what a scan had collected when it failed.
MergeResultsPartial(scans) == UNION {scans[k].result : k \in DOMAIN scans}

\* The merge of the result sets (lines 83-91).
MergeResults(scans) ==
  UNION {scans[k].result : k \in {m \in DOMAIN scans : scans[m].ret = "result"}}

NoServed == [path |-> UndefStr, entry |-> NoEntry]

\* A call of getExecutablesInPath as it starts.
NewLookup(pathValue, shellType, env) ==
  [pathValue |-> pathValue, pc |-> "done", outcome |-> "undefined", ret |-> NoEntry,
   scans |-> <<>>, labels |-> {}, executables |-> {},
   \* what the call was given and what it saw (read by no action)
   shellType |-> shellType,
   hasPathKey |-> \E i \in DOMAIN env : ToLowerCase(env[i].key) = "path",
   hit |-> FALSE, refreshed |-> FALSE, cfgs |-> {}, cfgAtReturn |-> UndefCfg,
   prevServed |-> {sv.entry : sv \in {x \in history.served : x.path = pathValue}},
   prevLast |-> IF history.lastServed.path = pathValue
                THEN history.lastServed.entry ELSE NoEntry,
   staleAtCall |-> {e \in history.stale : lookups[e].pathValue = pathValue},
   mustSee |-> IF pathValue = UndefStr THEN {}
               ELSE {c.name : c \in {x \in history.created :
                        /\ x.dir \in history.calledBack
                        /\ x.dir \in Range(Split(pathValue, Delimiter(isWindows)))}}]

\* What the history keeps when a call returns an entry.
Served(pathValue, entry) ==
  [history EXCEPT !.served = @ \cup {[path |-> pathValue, entry |-> entry]},
                  !.lastServed = [path |-> pathValue, entry |-> entry]]

\* getExecutablesInPath(env, shellType) up to its first await: the cache
\* key, the check of the cache, and the fan-out (each _getExecutablesInPath
\* runs up to its fs.stat).
GetExecutablesInPath(env, shellType) ==
  /\ Len(lookups) < MaxLookups
  /\ LET pathValue == ResolvePathValue(env, shellType, isWindows, processPath)
         call == NewLookup(pathValue, shellType, env)
     IN  IF pathValue = UndefStr
         THEN /\ lookups' = Append(lookups, call)
              /\ UNCHANGED history
         ELSE IF CacheHit(cachedExes, cachedPathValue, pathValue)
         THEN /\ lookups' = Append(lookups,
                     [call EXCEPT !.outcome = "entry", !.ret = cachedExes, !.hit = TRUE,
                                  !.cfgAtReturn = cachedWindowsExeExtensions])
              /\ history' = Served(pathValue, cachedExes)
         ELSE LET paths == Split(pathValue, Delimiter(isWindows))
              IN  /\ lookups' = Append(lookups,
                         [call EXCEPT !.pc = "scan", !.outcome = "pending",
                                      !.scans = [k \in DOMAIN paths |-> NewScan(paths[k])]])
                  /\ UNCHANGED history
  /\ UNCHANGED <<platformVars, hostConfig, filesystem, cacheVars, watchVars>>

\* TerminalCompletionItemKind.Method
Method == "Method"

\* result.add({label, documentation, kind}) (lines 150-154); kind is the
\* local of line 109, which only a link has set (line 127): kind ?? Method.
AddResult(sc, f, documentation, kind, by) ==
  [sc EXCEPT !.result = @ \cup
     {Resource(f.name, documentation, IF kind = Undef THEN Method ELSE kind, by)}]

\* isExecutable(symlinkRealPath) has settled (lines 124-155): a link whose
\* target is not executable is skipped; otherwise, with no await left, the
\* check of the shared labels and the insertion run together.
AfterIsExecutableLink(ctx, by) ==
  LET sc == ctx.sc
      f  == sc.files[sc.i]
      isExec == IsExecutable(f.target.x, f.target.suffix, sc.cfgArg, isWindows)
      formattedPath == LinkDocumentation(sc.dir, f.name, PathSeparator(isWindows),
                                         f.target.name)
  IN  IF ~isExec \/ f.name \in ctx.labels
      THEN [ctx EXCEPT !.sc = Continue(sc)]
      ELSE [ctx EXCEPT !.sc = Continue(AddResult(sc, f, formattedPath, Method, by)),
                       !.labels = @ \cup {f.name}]

\* isExecutable(formattedPath) has settled (lines 145-155): the entry is
\* added and its name goes to the shared labels, which were checked before
\* the await.
AfterIsExecutable(ctx, by) ==
  LET sc == ctx.sc
      f  == sc.files[sc.i]
      isExec == IsExecutable(f.x, f.suffix, sc.cfgArg, isWindows)
      formattedPath == GetFriendlyResourcePath(sc.dir, f.name, PathSeparator(isWindows))
  IN  IF ~isExec
      THEN [ctx EXCEPT !.sc = Continue(sc)]
      ELSE [ctx EXCEPT !.sc = Continue(AddResult(sc, f, formattedPath, Undef, by)),
                       !.labels = @ \cup {f.name}]

\* Whether the promise of isExecutable settles only after filesystem I/O, so
\* that other callbacks run before the caller resumes: it reads the
\* permission of the file, except on the Windows family, where it compares
\* suffixes and the caller resumes in the same turn of the event loop.
IsExecutableYields(win) == ~win

\* await isExecutable(path, this._cachedWindowsExeExtensions) (lines 123
\* and 145): the configuration is read at the call; the scan is suspended
\* at pc, or resumes at once when the promise settles without I/O.
AwaitIsExecutable(ctx, pc, by) ==
  LET called == [ctx EXCEPT !.sc = [@ EXCEPT !.pc = pc,
                                             !.cfgArg = cachedWindowsExeExtensions],
                            !.cfgs = @ \cup {cachedWindowsExeExtensions}]
  IN  IF IsExecutableYields(isWindows) THEN called
      ELSE IF pc = "isExecutableLink" THEN AfterIsExecutableLink(called, by)
      ELSE AfterIsExecutable(called, by)

\* fs.lstat has settled (lines 119-145): an unreadable entry is skipped; for
\* a link realpath is called; for another entry the shared labels are
\* checked and isExecutable is called.  An error thrown outside the inner
\* try is caught at line 158 and ends the scan.
AfterLstat(ctx, by) ==
  LET sc == ctx.sc
      f  == sc.files[sc.i]
  IN  IF f.lstat = "fail" THEN [ctx EXCEPT !.sc = Continue(sc)]
      ELSE IF f.lstat = "link" THEN [ctx EXCEPT !.sc = [sc EXCEPT !.pc = "realpath"]]
      ELSE IF f.throws THEN [ctx EXCEPT !.sc = CatchScanError(sc)]
      ELSE IF f.name \in ctx.labels THEN [ctx EXCEPT !.sc = Continue(sc)]
      ELSE AwaitIsExecutable(ctx, "isExecutable", by)

\* fs.realpath has settled (lines 122-123, 129-131): a link that does not
\* resolve is skipped; otherwise isExecutable is called on the real path.
AfterRealpath(ctx, by) ==
  LET sc == ctx.sc
      f  == sc.files[sc.i]
  IN  IF ~f.target.resolves THEN [ctx EXCEPT !.sc = Continue(sc)]
      ELSE AwaitIsExecutable(ctx, "isExecutableLink", by)

\* The scans a step may resume.
Suspended(id, k, pc) ==
  /\ id \in DOMAIN lookups
  /\ k \in DOMAIN lookups[id].scans
  /\ lookups[id].scans[k].pc = pc

\* What a step of scan k of call id works on: the scan and the labels the
\* scans of the call share (cfgs: the configurations handed to isExecutable).
Context(id, k) ==
  [sc |-> lookups[id].scans[k], labels |-> lookups[id].labels, cfgs |-> lookups[id].cfgs]

\* Scan k of call id ran from one await to the next and left ctx.  When this
\* settles Promise.all, getExecutablesInPath resumes in the same turn of the
\* event loop (lines 84-96): the merge, the publication of the entry and the
\* return; a rejection would reject the call.
Resume(id, k, ctx) ==
  LET call  == [lookups[id] EXCEPT !.scans[k] = ctx.sc, !.labels = ctx.labels,
                                   !.cfgs = ctx.cfgs]
      all   == PromiseAll(call.scans)
  IN  IF call.pc # "scan" \/ all = "pending"
      THEN /\ lookups' = [lookups EXCEPT ![id] = call]
           /\ UNCHANGED <<cachedPathValue, cachedExes, history>>
      ELSE IF all = "rejected"
      THEN /\ lookups' = [lookups EXCEPT ![id] =
                 [call EXCEPT !.pc = "done", !.outcome = "error"]]
           /\ UNCHANGED <<cachedPathValue, cachedExes, history>>
      ELSE /\ lookups' = [lookups EXCEPT ![id] =
                 [call EXCEPT !.pc = "done", !.outcome = "entry", !.ret = id,
                              !.executables = MergeResults(call.scans),
                              !.cfgAtReturn = cachedWindowsExeExtensions]]
           /\ cachedPathValue' = PublishedPathValue(cachedPathValue, call.pathValue)
           /\ cachedExes' = id
           /\ history' = Served(call.pathValue, id)

ScanUnchanged ==
  UNCHANGED <<platformVars, hostConfig, filesystem, cachedWindowsExeExtensions, watchVars>>

\* fs.stat(path) settles (lines 101-107): readDirectory is called, or the
\* scan returns undefined.
Scan_stat(id, k) ==
  /\ Suspended(id, k, "stat")
  /\ Settles(filesystem, lookups[id].scans[k].dir)
  /\ LET ctx == Context(id, k)
     IN  Resume(id, k, [ctx EXCEPT !.sc =
           IF StatIsDirectory(filesystem, ctx.sc.dir)
           THEN [ctx.sc EXCEPT !.pc = "readDirectory"]
           ELSE ReturnUndefined(ctx.sc)])
  /\ ScanUnchanged

\* vscode.workspace.fs.readDirectory settles: the loop starts, or the error
\* is caught at line 158.
Scan_readDirectory(id, k) ==
  /\ Suspended(id, k, "readDirectory")
  /\ LET ctx == Context(id, k)
     IN  Resume(id, k, [ctx EXCEPT !.sc =
           IF filesystem[ctx.sc.dir].kind = "dir"
           THEN Continue([ctx.sc EXCEPT !.files = filesystem[ctx.sc.dir].files, !.i = 0])
           ELSE CatchScanError(ctx.sc)])
  /\ ScanUnchanged

\* fs.lstat settles.
Scan_lstat(id, k) ==
  /\ Suspended(id, k, "lstat")
  /\ Resume(id, k, AfterLstat(Context(id, k), <<id, k>>))
  /\ ScanUnchanged

\* fs.realpath settles.
Scan_realpath(id, k) ==
  /\ Suspended(id, k, "realpath")
  /\ Resume(id, k, AfterRealpath(Context(id, k), <<id, k>>))
  /\ ScanUnchanged

\* isExecutable(symlinkRealPath) settles after its filesystem I/O.
Scan_isExecutableLink(id, k) ==
  /\ Suspended(id, k, "isExecutableLink")
  /\ Resume(id, k, AfterIsExecutableLink(Context(id, k), <<id, k>>))
  /\ ScanUnchanged

\* isExecutable(formattedPath) settles after its filesystem I/O.
Scan_isExecutable(id, k) ==
  /\ Suspended(id, k, "isExecutable")
  /\ Resume(id, k, AfterIsExecutable(Context(id, k), <<id, k>>))
  /\ ScanUnchanged

\* A refresh() that clears nothing.
RefreshedCacheKept(exes, pathValue) == [exes |-> exes, pathValue |-> pathValue]

\* refresh() (lines 44-47): the entry and the key it leaves.
RefreshedCache(exes, pathValue) == [exes |-> NoEntry, pathValue |-> UndefStr]

\* The effect of a call of refresh() on the cache, with what the history
\* keeps of it: the fills in flight and the entries published before it.
RefreshEffect ==
  /\ cachedExes' = RefreshedCache(cachedExes, cachedPathValue).exes
  /\ cachedPathValue' = RefreshedCache(cachedExes, cachedPathValue).pathValue
  /\ lookups' = [id \in DOMAIN lookups |->
                   IF lookups[id].pc = "scan"
                   THEN [lookups[id] EXCEPT !.refreshed = TRUE] ELSE lookups[id]]

RefreshHistory(h) ==
  [h EXCEPT !.served = {}, !.lastServed = NoServed,
            !.stale = @ \cup {id \in DOMAIN lookups : lookups[id].ret = id}]

\* refresh() called by the owner of the cache.
Refresh ==
  /\ RefreshEffect
  /\ history' = RefreshHistory(history)
  /\ UNCHANGED <<platformVars, hostConfig, filesystem, cachedWindowsExeExtensions, watchVars>>

\* The values the configuration store holds for the suffix-only setting.
ConfigValues == {UndefCfg, {".ps1"}}

\* The configuration store changes and fires onDidChangeConfiguration; the
\* listener of lines 29-34 is registered on the Windows family only.
\* affects: e.affectsConfiguration(SettingsIds.CachedWindowsExecutableExtensions).
OnDidChangeConfiguration(value, affects) ==
  /\ history.cfgChanges < MaxConfigChanges
  /\ affects => value # hostConfig
  /\ hostConfig' = IF affects THEN value ELSE hostConfig
  /\ IF isWindows /\ affects
     THEN /\ cachedWindowsExeExtensions' = hostConfig'
          /\ cachedExes' = NoEntry
     ELSE UNCHANGED <<cachedWindowsExeExtensions, cachedExes>>
  /\ history' = IF affects
                THEN [history EXCEPT !.cfgChanges = @ + 1, !.served = {},
                                     !.lastServed = NoServed]
                ELSE history
  /\ UNCHANGED <<platformVars, filesystem, cachedPathValue, lookups, watchVars>>

(***************************************************************************)
(* watchPathDirectories.                                                   *)
(***************************************************************************)
\* The directories of env.PATH, as the Set of lines 166-171 lists them.
PathDirectories(env, win) ==
  LET envPath == EnvGet(env, "PATH")
  IN  IF envPath # UndefStr /\ envPath # <<>>
      THEN Dedupe(Split(envPath, Delimiter(win)))
      ELSE <<>>

\* The watcher fs.watch opens for a directory in call c.
Watcher(c, dir) == [call |-> c, dir |-> dir]

\* watchPathDirectories(context, env, pathExecutableCache) up to its first
\* await (the fs.stat of the first directory).
WatchPathDirectories(env, hasCache) ==
  /\ Len(watchCalls) < MaxWatchCalls
  /\ LET dirs == PathDirectories(env, isWindows)
     IN  watchCalls' = Append(watchCalls,
           [dirs |-> dirs, i |-> 1, activeWatchers |-> {}, hasCache |-> hasCache,
            pc |-> IF dirs = <<>> THEN "done" ELSE "stat"])
  /\ UNCHANGED <<platformVars, hostConfig, filesystem, cacheVars, lookups,
                 watchers, subscriptions, pendingEvents, history>>

\* if (activeWatchers.has(dir)) continue (lines 178-181), up to the next
\* fs.stat or the end of the loop.
RECURSIVE NextToWatch(_, _, _)
NextToWatch(dirs, active, i) ==
  IF i > Len(dirs) THEN i
  ELSE IF dirs[i] \in active THEN NextToWatch(dirs, active, i + 1)
  ELSE i

\* fs.stat(dir) settles (lines 183-203): a missing path and a path that is
\* no directory are skipped, as is a directory fs.watch throws for;
\* otherwise the watcher is open, the directory is in activeWatchers and
\* the teardown is pushed to context.subscriptions.
WatchPathDirectories_stat(c) ==
  /\ c \in DOMAIN watchCalls
  /\ watchCalls[c].pc = "stat"
  /\ LET wc  == watchCalls[c]
         dir == wc.dirs[wc.i]
         watched == dir \in DOMAIN filesystem /\ filesystem[dir].kind = "dir"
         active == IF watched THEN wc.activeWatchers \cup {dir} ELSE wc.activeWatchers
         j == NextToWatch(wc.dirs, active, wc.i + 1)
     IN  /\ watchCalls' = [watchCalls EXCEPT ![c] =
               [wc EXCEPT !.activeWatchers = active, !.i = j,
                          !.pc = IF j > Len(wc.dirs) THEN "done" ELSE "stat"]]
         /\ watchers' = IF watched THEN watchers \cup {Watcher(c, dir)} ELSE watchers
         /\ subscriptions' = IF watched THEN subscriptions \cup {Watcher(c, dir)}
                             ELSE subscriptions
  /\ UNCHANGED <<platformVars, hostConfig, filesystem, cacheVars, lookups,
                 pendingEvents, history>>

\* The callback of fs.watch (lines 188-193): refresh() if a cache was given.
WatchCallback(w) ==
  /\ w \in pendingEvents
  /\ pendingEvents' = pendingEvents \ {w}
  /\ IF watchCalls[w.call].hasCache
     THEN /\ RefreshEffect
          /\ history' = [RefreshHistory(history) EXCEPT !.calledBack = @ \cup {w.dir}]
     ELSE UNCHANGED <<cachedExes, cachedPathValue, lookups, history>>
  /\ UNCHANGED <<platformVars, hostConfig, filesystem, cachedWindowsExeExtensions,
                 watchCalls, watchers, subscriptions>>

\* Disposables that close nothing.
ClosedNone(open, disposed) == open

\* watcher.close() of every Disposable that runs (line 199): the watchers
\* left open.
Closed(open, disposed) == open \ disposed

\* The lifecycle scope is torn down: every Disposable of context.subscriptions
\* runs (lines 197-202): watcher.close() and activeWatchers.delete(dir).  A
\* closed watcher delivers no event.
DisposeSubscriptions ==
  /\ subscriptions # {}
  /\ watchers' = Closed(watchers, subscriptions)
  /\ pendingEvents' = pendingEvents \cap watchers'
  /\ watchCalls' = [c \in DOMAIN watchCalls |->
        [watchCalls[c] EXCEPT !.activeWatchers =
           @ \ {w.dir : w \in {x \in subscriptions : x.call = c}}]]
  /\ subscriptions' = {}
  /\ UNCHANGED <<platformVars, hostConfig, filesystem, cacheVars, lookups, history>>

\* The environment creates an executable file in a readable directory; every
\* open watcher of the directory has a change event to deliver.
CreateFile(dir) ==
  /\ history.fsChanges < MaxFsChanges
  /\ dir \in DOMAIN filesystem
  /\ filesystem[dir].kind = "dir"
  /\ LET f == NewFile(history.fsChanges + 1)
     IN  filesystem' = [filesystem EXCEPT ![dir].files = Append(@, f)]
  /\ pendingEvents' = pendingEvents \cup {w \in watchers : w.dir = dir}
  /\ history' = [history EXCEPT
        !.fsChanges = @ + 1,
        !.calledBack = @ \ {dir},
        !.created = @ \cup {[dir |-> dir, name |-> NewFile(history.fsChanges + 1).name,
                              watched |-> \E w \in watchers : w.dir = dir]}]
  /\ UNCHANGED <<platformVars, hostConfig, cacheVars, lookups, watchCalls, watchers,
                 subscriptions>>

(***************************************************************************)
(* The initial states and the next-state relation.                         *)
(***************************************************************************)
\* env: the environment mapping of the terminal, where one mapping is handed
\* to every call.
NoHistory ==
  [served |-> {}, lastServed |-> NoServed, stale |-> {}, calledBack |-> {},
   created |-> {}, cfgChanges |-> 0, fsChanges |-> 0, env |-> <<>>]

\* The state after `new PathExecutableCache()` (lines 20-36) on a platform,
\* with a process PATH, a configuration, a filesystem and the environment
\* mapping of the terminal.
InitEnv(win, procPath, cfg, fs, env) ==
  /\ isWindows = win
  /\ processPath = procPath
  /\ hostConfig = cfg
  /\ filesystem = fs
  /\ cachedPathValue = UndefStr
  /\ cachedWindowsExeExtensions = (IF win THEN cfg ELSE UndefCfg)
  /\ cachedExes = NoEntry
  /\ lookups = <<>>
  /\ watchCalls = <<>>
  /\ watchers = {}
  /\ subscriptions = {}
  /\ pendingEvents = {}
  /\ history = [NoHistory EXCEPT !.env = env]

InitWith(win, procPath, cfg, fs) == InitEnv(win, procPath, cfg, fs, <<>>)

Lookup(envs, shellTypes) ==
  \E env \in envs, shellType \in shellTypes : GetExecutablesInPath(env, shellType)

\* A suspended scan of a call resumes; the scans of a call are numbered by
\* their place in the PATH list.
ScanStep ==
  \E id \in DOMAIN lookups : \E k \in DOMAIN lookups[id].scans :
    \/ Scan_stat(id, k)
    \/ Scan_readDirectory(id, k)
    \/ Scan_lstat(id, k)
    \/ Scan_realpath(id, k)
    \/ Scan_isExecutableLink(id, k)
    \/ Scan_isExecutable(id, k)

ConfigChange == \E value \in ConfigValues, affects \in BOOLEAN :
                  OnDidChangeConfiguration(value, affects)

Watch(envs) == \E env \in envs, hasCache \in BOOLEAN :
                 WatchPathDirectories(env, hasCache)

WatchStep == \E c \in DOMAIN watchCalls : WatchPathDirectories_stat(c)

Callback == \E w \in pendingEvents : WatchCallback(w)

FsChange == \E dir \in Dirs : CreateFile(dir)

Env(key, value) == <<[key |-> key, value |-> value]>>

(***************************************************************************)
(* Spec: the cache under concurrent lookups, refresh() and configuration   *)
(* changes, on both platforms, with and without a process PATH.            *)
(***************************************************************************)
\* A directory with a script and a link, and a directory that is missing.
FsCache ==
  [d \in Dirs |-> IF d = DirA THEN Directory("dir", <<Script, LinkExe>>)
                  ELSE Directory("missing", <<>>)]

CacheEnvs == {<<>>, Env("PATH", <<>>), Env("PATH", DirA)}

Init == \E win \in BOOLEAN : InitWith(win, DirB, UndefCfg, FsCache)

Next ==
  \/ Lookup(CacheEnvs, {Undef, "GitBash"})
  \/ ScanStep
  \/ Refresh
  \/ ConfigChange

Spec == Init /\ [][Next]_vars

(***************************************************************************)
(* SpecScan: the fan-out of one cache fill at a time over two directories, *)
(* under every interleaving of its scans, on filesystems with colliding    *)
(* names and with every kind of failure.                                   *)
(***************************************************************************)
\* The same executable name in both directories, and a link of that name.
FsCollide ==
  [d \in Dirs |-> IF d = DirA THEN Directory("dir", <<FooExe, LinkExe>>)
                  ELSE Directory("dir", <<FooLink, Script>>)]

\* Entries that are skipped or fail, and a directory that cannot be listed.
FsFaulty ==
  [d \in Dirs |-> IF d = DirA
                  THEN Directory("dir", <<SubDir, Vanished, LinkDead, Unknown,
                                          Readme, LinkPlain, FooExe>>)
                  ELSE Directory("unreadable", <<>>)]

\* A PATH entry that is a file, and an empty directory.
FsNotDir ==
  [d \in Dirs |-> IF d = DirA THEN Directory("notdir", <<>>)
                  ELSE Directory("dir", <<>>)]

\* A directory whose scan adds an entry and then hits an error outside the
\* inner try, and a directory with a link of the name added before.
FsPartial ==
  [d \in Dirs |-> IF d = DirA THEN Directory("dir", <<FooExe, Throwing>>)
                  ELSE Directory("dir", <<FooLink, LinkExe>>)]

ScanEnvs(win) == {<<>>} \cup {Env("PATH", v) : v \in PathValues(win)}

InitScan == \E win \in BOOLEAN, fs \in {FsCollide, FsFaulty, FsNotDir, FsPartial} :
              InitWith(win, UndefStr, UndefCfg, fs)

\* The calls that are suspended in their fan-out.
InFlight == {id \in DOMAIN lookups : lookups[id].pc = "scan"}

\* A lookup is called when the calls before it have returned.
NoLookupInFlight == InFlight = {}

NextScan ==
  \/ NoLookupInFlight /\ Lookup(ScanEnvs(isWindows), {Undef})
  \/ ScanStep

SpecScan == InitScan /\ [][NextScan]_vars

(***************************************************************************)
(* SpecResolve: the cache key, for every environment mapping and shell     *)
(* hint, on both platforms, with and without a process PATH.               *)
(***************************************************************************)
InitResolve == \E win \in BOOLEAN, procPath \in {UndefStr, DirA} :
                 InitWith(win, procPath, UndefCfg, FsCache)

NextResolve ==
  \/ NoLookupInFlight /\ Lookup(Envs(isWindows), ShellTypes)
  \/ ScanStep

SpecResolve == InitResolve /\ [][NextResolve]_vars

(***************************************************************************)
(* SpecWatch: watchPathDirectories, the change events of the watched       *)
(* directories and the teardown of the scope, with lookups of which two    *)
(* may be in flight together.                                              *)
(***************************************************************************)
FsWatch ==
  [d \in Dirs |-> IF d = DirA THEN Directory("dir", <<LinkExe>>)
                  ELSE Directory("missing", <<>>)]

WatchEnvs(win) ==
  {Env("PATH", DirA), Env("PATH", DirA \o <<Delimiter(win)>> \o DirB),
   Env("PATH", DirA \o <<Delimiter(win)>> \o DirA)}

InitWatch == \E win \in BOOLEAN : InitWith(win, UndefStr, UndefCfg, FsWatch)

NextWatch ==
  \/ Cardinality(InFlight) < MaxInFlight /\ Lookup({Env("PATH", DirA)}, {Undef})
  \/ ScanStep
  \/ Watch(WatchEnvs(isWindows))
  \/ WatchStep
  \/ Callback
  \/ DisposeSubscriptions
  \/ FsChange

SpecWatch == InitWatch /\ [][NextWatch]_vars

(***************************************************************************)
(* SpecJoin: lookups, of which two may be in flight together, and         *)
(* refresh() while the filesystem calls on one directory never return;     *)
(* every scan whose filesystem call has returned is resumed in the end     *)
(* (the event loop runs every callback that is due).                       *)
(***************************************************************************)
FsHang ==
  [d \in Dirs |-> IF d = DirA THEN Directory("dir", <<FooExe, LinkExe>>)
                  ELSE Directory("hangs", <<>>)]

JoinEnvs(win) ==
  {Env("PATH", DirA), Env("PATH", DirA \o <<Delimiter(win)>> \o DirB)}

InitJoin == \E win \in BOOLEAN : InitWith(win, UndefStr, UndefCfg, FsHang)

NextJoin ==
  \/ Cardinality(InFlight) < MaxInFlight /\ Lookup(JoinEnvs(isWindows), {Undef})
  \/ ScanStep
  \/ Refresh

SpecJoin == InitJoin /\ [][NextJoin]_vars /\ WF_vars(ScanStep)

(***************************************************************************)
(* SpecSame: getExecutablesInPath and watchPathDirectories called with the *)
(* environment mapping of one terminal, under either key of the PATH, on   *)
(* both platforms and with every shell hint.                               *)
(***************************************************************************)
FsSame ==
  [d \in Dirs |-> IF d = DirA THEN Directory("dir", <<FooExe>>)
                  ELSE Directory("dir", <<LinkExe>>)]

SameEnvs(win) ==
  {Env(k, v) : k \in EnvKeys, v \in {DirA, DirA \o <<Delimiter(win)>> \o DirB}}

InitSame == \E win \in BOOLEAN : \E env \in SameEnvs(win) :
              InitEnv(win, DirB, UndefCfg, FsSame, env)

NextSame ==
  \/ NoLookupInFlight /\ Lookup({history.env}, ShellTypes)
  \/ ScanStep
  \/ Watch({history.env})
  \/ WatchStep

SpecSame == InitSame /\ [][NextSame]_vars

(***************************************************************************)
(* The properties.                                                         *)
(***************************************************************************)
\* The fills that published their entry; an entry has its fill's number.
Published == {id \in DOMAIN lookups : lookups[id].ret = id}

\* The calls that returned an entry.
Returned == {id \in DOMAIN lookups : lookups[id].pc = "done" /\ lookups[id].outcome = "entry"}

\* The labels of the resources of entry e.
Labels(e) == {r.label : r \in lookups[e].executables}

\* C1: the completionResources of every published entry hold at most one
\* resource per label, whatever the interleaving of the scans of the fill.
C1_OneResourcePerLabel ==
  \A e \in Published :
    \A r1, r2 \in lookups[e].executables : r1.label = r2.label => r1 = r2

\* C2: the entry the cache holds was computed from the PATH string the cache
\* remembers, and every entry a call returned, from the cache or from its own
\* fill, was computed by scanning the directories of the PATH string resolved
\* for that call.
C2_EntryComputedFromRequestedPath ==
  /\ cachedExes # NoEntry =>
       /\ cachedExes \in Published
       /\ lookups[cachedExes].pathValue = cachedPathValue
  /\ \A id \in Returned :
       LET e == lookups[id].ret
       IN  /\ e \in Published
           /\ [k \in DOMAIN lookups[e].scans |-> lookups[e].scans[k].dir]
                = Split(lookups[id].pathValue, Delimiter(isWindows))

\* A call is served from the cache while an entry computed from another PATH
\* string was published before.
C2_Witness ==
  \E id \in Returned, other \in Published :
    /\ lookups[id].hit
    /\ other < id
    /\ lookups[other].pathValue # lookups[id].pathValue

\* C3 as stated: a call served from the cache never gets an entry whose scans
\* started before a refresh() that preceded the call.
C3_NoEntryScannedBeforeRefresh ==
  \A id \in DOMAIN lookups :
    lookups[id].hit =>
      /\ ~lookups[lookups[id].ret].refreshed
      /\ lookups[id].ret \notin lookups[id].staleAtCall

\* C3, amended: a call served from the cache never gets an entry that was
\* published before a refresh() that preceded the call; with nothing
\* published since the refresh, the call rescans.
C3_NoEntryPublishedBeforeRefresh ==
  \A id \in DOMAIN lookups :
    lookups[id].hit => lookups[id].ret \notin lookups[id].staleAtCall

\* After a refresh() a call with the PATH string of an entry published
\* before the refresh has rescanned and returned its own entry.
C3_Witness ==
  \E id \in Returned :
    /\ ~lookups[id].hit
    /\ \E e \in lookups[id].staleAtCall : lookups[e].pathValue = lookups[id].pathValue

\* C4 as stated: a call with the PATH string of any earlier returned call,
\* with no refresh() and no configuration change since that return, is
\* served the entry that call returned and starts no scan.
C4_RepeatedLookupSameEntry ==
  \A id \in DOMAIN lookups :
    lookups[id].prevServed # {} =>
      /\ lookups[id].hit
      /\ lookups[id].scans = <<>>
      /\ lookups[id].prevServed = {lookups[id].ret}

\* C4, amended: a call with the PATH string of the call that returned last,
\* with no refresh() and no configuration change since that return, is
\* served the entry that call returned and starts no scan.
C4_ConsecutiveLookupSameEntry ==
  \A id \in DOMAIN lookups :
    lookups[id].prevLast # NoEntry =>
      /\ lookups[id].hit
      /\ lookups[id].scans = <<>>
      /\ lookups[id].ret = lookups[id].prevLast

\* A second call with the same PATH string was served the entry the first
\* call had published.
C4_Witness ==
  \E id \in Returned :
    /\ lookups[id].prevLast # NoEntry
    /\ lookups[id].hit
    /\ lookups[id].ret < id

\* C5 as stated: a call made after the callback of a watched directory that
\* gained an executable returns an entry with the new name, when the
\* directory is one of its PATH.
C5_NextLookupSeesNewExecutable ==
  \A id \in Returned : lookups[id].mustSee \subseteq Labels(lookups[id].ret)

\* C5, amended: the same, unless the entry served is that of a fill that was
\* in flight when refresh() ran.
C5_NextLookupSeesNewExecutableUnlessInFlight ==
  \A id \in Returned :
    ~lookups[lookups[id].ret].refreshed =>
      lookups[id].mustSee \subseteq Labels(lookups[id].ret)

\* After a first lookup the watched directory gained an executable, the
\* callback ran, and a later call with the same PATH returned a fresh entry
\* with the new name.
C5_Witness ==
  \E id \in Returned, first \in Published :
    /\ first < id
    /\ lookups[first].pathValue = lookups[id].pathValue
    /\ lookups[first].mustSee = {}
    /\ lookups[id].mustSee # {}
    /\ ~lookups[id].hit
    /\ ~lookups[id].refreshed
    /\ lookups[id].mustSee \subseteq Labels(id)
    /\ ~(lookups[id].mustSee \subseteq Labels(first))

\* C6: no directory has two open watchers.
C6_OneWatchPerDirectory ==
  \A w1, w2 \in watchers : w1.dir = w2.dir => w1 = w2

\* C7: every scan of the fill of a published entry has settled, and the
\* labels and the completionResources of a published entry never change.
C7_PublishedEntryIsComplete ==
  /\ [](\A e \in Published :
          \A k \in DOMAIN lookups[e].scans : lookups[e].scans[k].ret # "pending")
  /\ [][\A e \in Published :
          /\ lookups'[e].labels = lookups[e].labels
          /\ lookups'[e].executables = lookups[e].executables]_vars

\* An entry was published from two scans that both returned results.
C7_Witness ==
  \E e \in Published :
    /\ Len(lookups[e].scans) = 2
    /\ \A k \in DOMAIN lookups[e].scans : lookups[e].scans[k].ret = "result"
    /\ lookups[e].scans[1].result # {}
    /\ lookups[e].scans[2].result # {}
    /\ Cardinality(lookups[e].labels) >= 2

\* C8: every isExecutable call of the fill of an entry a call returns was
\* handed the suffix configuration the cache holds when the call returns.
C8_ServedEntryUsesCurrentConfig ==
  \A id \in Returned : lookups[lookups[id].ret].cfgs \subseteq {lookups[id].cfgAtReturn}

\* C9 as stated: a call whose environment has no key equal to "path" up to
\* case returns undefined and starts no scan, whatever the shell hint.
C9_NoPathKeyReturnsUndefined ==
  \A id \in DOMAIN lookups :
    ~lookups[id].hasPathKey =>
      /\ lookups[id].pc = "done"
      /\ lookups[id].outcome = "undefined"
      /\ lookups[id].scans = <<>>

\* C9, amended: the same for every shell hint but GitBash; with the GitBash
\* hint the call returns undefined exactly when the process has no PATH.
C9_NoPathKeyReturnsUndefinedUnlessGitBash ==
  \A id \in DOMAIN lookups :
    ~lookups[id].hasPathKey =>
      IF lookups[id].shellType = "GitBash"
      THEN (lookups[id].outcome = "undefined") <=> (processPath = UndefStr)
      ELSE /\ lookups[id].pc = "done"
           /\ lookups[id].outcome = "undefined"
           /\ lookups[id].scans = <<>>

\* Calls without a PATH key returned undefined with a shell hint and
\* without one, after a call that filled the cache.
C9_Witness ==
  \E id1, id2 \in DOMAIN lookups, e \in Published :
    /\ e < id1 /\ e < id2
    /\ ~lookups[id1].hasPathKey /\ lookups[id1].shellType = "Bash"
    /\ ~lookups[id2].hasPathKey /\ lookups[id2].shellType = Undef
    /\ lookups[id1].outcome = "undefined"
    /\ lookups[id2].outcome = "undefined"

\* C10: a call that has returned returned undefined exactly when no PATH
\* string was resolved, and no call was rejected.
C10_ResolvedPathReturnsEntry ==
  \A id \in DOMAIN lookups :
    /\ lookups[id].outcome # "error"
    /\ lookups[id].pc = "done" =>
         IF lookups[id].pathValue = UndefStr
         THEN lookups[id].outcome = "undefined"
         ELSE lookups[id].outcome = "entry" /\ lookups[id].ret \in Published

\* A call returned an entry although one directory of its PATH could not be
\* listed and the other held a vanished entry and a broken link, and a call
\* with the empty PATH string returned an entry.
C10_Witness ==
  /\ \E id \in Returned :
       /\ Len(lookups[id].scans) = 2
       /\ lookups[id].scans[1].ret = "result"
       /\ {Vanished, LinkDead} \subseteq Range(lookups[id].scans[1].files)
       /\ filesystem[lookups[id].scans[2].dir].kind = "unreadable"
       /\ lookups[id].scans[2].ret = "undefined"
  /\ \E id \in Returned : lookups[id].pathValue = <<>>

\* An entry a scan is to accept: neither a directory nor of unknown type,
\* its lstat succeeds, and it is a file the predicate accepts or a link whose
\* target resolves and is accepted by the predicate.
Accepted(f) ==
  /\ f.type \notin {"Unknown", "Directory"}
  /\ f.lstat # "fail"
  /\ IF f.lstat = "link"
     THEN /\ f.target.resolves
          /\ IsExecutable(f.target.x, f.target.suffix, cachedWindowsExeExtensions, isWindows)
     ELSE IsExecutable(f.x, f.suffix, cachedWindowsExeExtensions, isWindows)

\* The names of the entries of the directory of scan k of call id that are
\* to be accepted.
AcceptedNames(id, k) ==
  LET dir == lookups[id].scans[k].dir
  IN  IF dir \in DOMAIN filesystem /\ filesystem[dir].kind = "dir"
      THEN {f.name : f \in {x \in Range(filesystem[dir].files) : Accepted(x)}}
      ELSE {}

\* The entries all of whose scans returned a result set.
PublishedWhole ==
  {e \in Published : \A k \in DOMAIN lookups[e].scans : lookups[e].scans[k].ret = "result"}

\* C11: on a name collision no directory has precedence, only this is
\* guaranteed: an executable name of any PATH directory has a resource in the
\* published entry, and every resource of the entry was produced by the scan
\* of a directory that holds an executable of that name (whichever scan
\* inserted the name first, not the one listed first).
C11_CollisionKeepsSomeDirectory ==
  \A e \in PublishedWhole :
    /\ \A k \in DOMAIN lookups[e].scans :
         AcceptedNames(e, k) \subseteq Labels(e)
    /\ \A r \in lookups[e].executables :
         /\ r.by[1] = e
         /\ r.label \in AcceptedNames(e, r.by[2])

\* Both directories of a PATH hold an executable of one name, and the
\* published entry keeps the resource of the directory listed later and none
\* of the directory listed first.
C11_Witness ==
  \E e \in PublishedWhole :
    /\ Len(lookups[e].scans) = 2
    /\ lookups[e].scans[1].dir # lookups[e].scans[2].dir
    /\ \E n \in AcceptedNames(e, 1) \cap AcceptedNames(e, 2) :
         /\ \E r \in lookups[e].executables : r.label = n
         /\ \A r \in lookups[e].executables : r.label = n => r.by = <<e, 2>>

\* The scans of call id that ended in the catch of line 158 after the loop
\* over the entries had started.
FailedPartWay(id) ==
  {k \in DOMAIN lookups[id].scans :
     LET sc == lookups[id].scans[k]
     IN  /\ sc.ret = "undefined"
         /\ sc.i \in DOMAIN sc.files
         /\ sc.files[sc.i].throws}

\* C12: a scan that hit an error part-way returned undefined and none of the
\* resources it had collected is in the merged entry, which is exactly the
\* union of the result sets the other scans returned; the call returned the
\* entry.
C12_FailedScanContributesNothing ==
  \A id \in DOMAIN lookups :
    FailedPartWay(id) # {} /\ PromiseAll(lookups[id].scans) # "pending" =>
      /\ id \in Returned /\ id \in Published
      /\ \A r \in lookups[id].executables : r.by[2] \notin FailedPartWay(id)
      /\ lookups[id].executables =
           UNION {lookups[id].scans[k].result :
                    k \in {m \in DOMAIN lookups[id].scans :
                             lookups[id].scans[m].ret = "result"}}

\* The scan of one directory failed after it had collected a resource, the
\* scan of the other directory returned resources, and the published entry
\* holds exactly those.
C12_Witness ==
  \E id \in Published :
    /\ Len(lookups[id].scans) = 2
    /\ 1 \in FailedPartWay(id)
    /\ lookups[id].scans[1].result # {}
    /\ lookups[id].scans[2].ret = "result"
    /\ lookups[id].scans[2].result # {}
    /\ lookups[id].executables = lookups[id].scans[2].result

\* Call c of watchPathDirectories opened a watcher on dir: the loop is past
\* dir, which is a directory fs.watch accepts.
Opened(c, dir) ==
  LET wc == watchCalls[c]
  IN  /\ \E j \in DOMAIN wc.dirs : wc.dirs[j] = dir /\ (j < wc.i \/ wc.pc = "done")
      /\ dir \in DOMAIN filesystem
      /\ filesystem[dir].kind = "dir"

Stalled(id) ==
  \E k \in DOMAIN lookups[id].scans :
    /\ lookups[id].scans[k].pc = "stat"
    /\ ~Settles(filesystem, lookups[id].scans[k].dir)

\* C14: every call all of whose scans get their filesystem calls answered
\* has returned in the end (a call that returned stays returned), also while
\* another call is stalled and whatever refresh() does; a call with a scan
\* that never returns stays suspended and publishes nothing.
C14_JoinOnEveryScan ==
  /\ <>[](\A id \in DOMAIN lookups : ~Stalled(id) => lookups[id].pc = "done")
  /\ [](\A id \in DOMAIN lookups :
          Stalled(id) => /\ lookups[id].pc = "scan"
                         /\ id \notin Published
                         /\ cachedExes # id)

\* While a call is stalled, with its other scan settled and a refresh() gone
\* by, a call made after it has scanned and published its entry.
C14_Witness ==
  \E id, other \in DOMAIN lookups :
    /\ Stalled(id)
    /\ \E k \in DOMAIN lookups[id].scans : lookups[id].scans[k].ret = "result"
    /\ lookups[id].refreshed
    /\ other > id
    /\ other \in Published
    /\ cachedExes = other

\* C15: whatever a scan has in its result set, and whatever the scans of a
\* call have put in the shared labels, is the name of an entry to be
\* accepted: never a directory or an entry of unknown type, a file the
\* predicate rejects, a link that does not resolve, or a link whose target
\* the predicate rejects.
C15_OnlyExecutablesAccepted ==
  \A id \in DOMAIN lookups :
    /\ \A k \in DOMAIN lookups[id].scans :
         {r.label : r \in lookups[id].scans[k].result} \subseteq AcceptedNames(id, k)
    /\ lookups[id].labels \subseteq
         UNION {AcceptedNames(id, k) : k \in DOMAIN lookups[id].scans}

\* A scan went through a subdirectory, an entry of unknown type, a file
\* that is not executable, a broken link and a link to a file that is not
\* executable, and returned the one executable of the directory.
C15_Witness ==
  \E id \in Published :
    /\ lookups[id].scans[1].ret = "result"
    /\ {SubDir, Unknown, Readme, LinkDead, LinkPlain} \subseteq
         Range(lookups[id].scans[1].files)
    /\ {r.label : r \in lookups[id].scans[1].result} = {FooExe.name}
    /\ lookups[id].labels = {FooExe.name}

\* The entry of the directory of a scan that a resource was produced for.
EntryOf(sc, r) == CHOOSE f \in Range(sc.files) : f.name = r.label

\* C16: a resource produced for a link has the documentation
\* "<link-path> -> <target-path>" and the target of the link is executable; a
\* resource produced for another entry has the friendly path of the entry as
\* documentation; and a scan that returned its result set has exactly one
\* resource, labelled with the name of the link, for each link whose target
\* resolves and is executable, unless another directory of the PATH holds an
\* executable of that name.
C16_LinkDocumentation ==
  \A id \in DOMAIN lookups : \A k \in DOMAIN lookups[id].scans :
    LET sc  == lookups[id].scans[k]
        sep == IF isWindows THEN "\\" ELSE "/"
    IN  /\ \A r \in sc.result :
             LET f == EntryOf(sc, r)
             IN  IF f.lstat = "link"
                 THEN /\ r.documentation = sc.dir \o <<sep, f.name, " -> ", f.target.name>>
                      /\ f.target.resolves
                      /\ IsExecutable(f.target.x, f.target.suffix,
                                      cachedWindowsExeExtensions, isWindows)
                 ELSE r.documentation = sc.dir \o <<sep, f.name>>
        /\ sc.ret = "result" =>
             \A f \in Range(sc.files) :
               (/\ f.lstat = "link"
                /\ Accepted(f)
                /\ \A m \in DOMAIN lookups[id].scans \ {k} :
                     f.name \notin AcceptedNames(id, m))
               => Cardinality({r \in sc.result : r.label = f.name}) = 1

\* A scan returned a resource for a link that is not executable itself and
\* whose target is, documented with both paths, and a resource for a regular
\* executable file, documented with its path.
C16_Witness ==
  \E id \in Published :
    LET sc == lookups[id].scans[1]
    IN  /\ sc.ret = "result"
        /\ {r.label : r \in sc.result} = {FooExe.name, LinkExe.name}
        /\ ~IsExecutable(LinkExe.x, LinkExe.suffix, cachedWindowsExeExtensions, isWindows)
        /\ \E r \in sc.result :
             /\ r.label = LinkExe.name
             /\ r.documentation =
                  sc.dir \o <<PathSeparator(isWindows), LinkExe.name, " -> ", "real.exe">>

\* C17: a resource produced for a symbolic link and a resource produced for
\* a regular file never carry the same kind.
C17_KindDistinguishesLink ==
  \A id \in DOMAIN lookups : \A k \in DOMAIN lookups[id].scans :
    LET sc == lookups[id].scans[k]
    IN  \A r1, r2 \in sc.result :
          (EntryOf(sc, r1).lstat = "link" /\ EntryOf(sc, r2).lstat = "file")
            => r1.kind # r2.kind

\* C18: the labels of a published entry are exactly the labels of its
\* resources, also when a scan of the fill failed part-way; so every
\* executable name of a directory whose scan returned its result set has a
\* resource in the entry.
C18_LabelsMatchResources ==
  \A e \in Published :
    /\ lookups[e].labels = Labels(e)
    /\ \A k \in DOMAIN lookups[e].scans :
         lookups[e].scans[k].ret = "result" => AcceptedNames(e, k) \subseteq Labels(e)

\* C19: once a call of watchPathDirectories with the environment mapping of
\* the terminal has returned, every existing directory that a call of
\* getExecutablesInPath with the same mapping scans has a watcher of that
\* call, whatever the platform and the shell hint.
C19_ScannedDirectoriesAreWatched ==
  \A id \in DOMAIN lookups : \A c \in DOMAIN watchCalls :
    watchCalls[c].pc = "done" =>
      \A k \in DOMAIN lookups[id].scans :
        LET dir == lookups[id].scans[k].dir
        IN  (dir \in DOMAIN filesystem /\ filesystem[dir].kind = "dir")
              => Watcher(c, dir) \in watchers

====
